---- MODULE Spec2Model ----
(***************************************************************************)
(* Model of the Capsule Telegram bot: account provisioning (/start),       *)
(* wallet display (/wallet), the guided transfer conversations and the     *)
(* pure helpers they use.  One action per await point of each handler.     *)
(***************************************************************************)
EXTENDS Integers, Sequences, FiniteSets, TLC

(***************************************************************************)
(* Bounds of the model                                                     *)
(***************************************************************************)
\* command updates (/start, /wallet) the bot receives in one run
MaxCommands == 3

\* handler invocations in flight at once: two, so that every pair of
\* handlers interleaves at every await
Procs == {1, 2}

\* guided-transfer conversations of one run
Sessions == {1, 2}

(***************************************************************************)
(* Inputs                                                                  *)
(***************************************************************************)
\* ctx.from of an update; the second user has no Telegram username
TelegramUsers ==
  { [id |-> "1001", username |-> "alice"],
    [id |-> "1002", username |-> ""] }

Ids == { u.id : u \in TelegramUsers }

\* ctx.from is undefined for updates without a sender
NoFrom == [id |-> "", username |-> ""]

Froms == TelegramUsers \cup {NoFrom}

\* process.env.DOMAIN
Domain == "DOMAIN"

\* an undefined / empty address or share
Missing == <<>>

Chains == {"EVM", "SOLANA"}

(***************************************************************************)
(* The signer (Capsule): createWalletPreGen + getUserShare                 *)
(***************************************************************************)
\* `${telegramId}@${DOMAIN}`
Identifier(telegramId) == <<telegramId, Domain>>

\* what one createWalletPreGen/getUserShare pair can produce
SignerOutcomes == {"ok", "throw", "noAddress", "noShare"}

PregenWallet(chain, telegramId, outcome) ==
  [ wallet |-> [address |-> IF outcome \in {"ok", "noShare"}
                            THEN <<"addr", chain, Identifier(telegramId)>>
                            ELSE Missing],
    share  |-> IF outcome \in {"ok", "noAddress"}
               THEN <<"share", chain, Identifier(telegramId)>>
               ELSE Missing ]

NoAccount == [wallet |-> [address |-> Missing], share |-> Missing]

generateAccount(telegramId, outcome) ==
  PregenWallet("EVM", telegramId, outcome)

generateSolanaAccount(telegramId, outcome) ==
  PregenWallet("SOLANA", telegramId, outcome)

(***************************************************************************)
(* The User model (mongoose)                                               *)
(***************************************************************************)
\* the two userSchema definitions of the repository
SchemaFiles == {"models.ts", "part_000"}

\* paths of the userSchema in src/db/models.ts
userSchema == {"telegramId", "username", "address", "userShare"}

\* paths of the userSchema with one address and share per chain
userSchemaDual ==
  {"telegramId", "username", "evmAddress", "evmUserShare",
   "solanaAddress", "solanaUserShare"}

SchemaPaths(file) == IF file = "models.ts" THEN userSchema ELSE userSchemaDual

StringPaths == {"telegramId", "username"}

AllPaths == userSchema \cup userSchemaDual

PathMissing(path) == IF path \in StringPaths THEN "" ELSE Missing

\* new User(obj): strict schemas keep only the paths the schema declares
NewUser(file, obj) ==
  [ path \in AllPaths |->
      IF path \in SchemaPaths(file) /\ path \in DOMAIN obj
      THEN obj[path] ELSE PathMissing(path) ]

\* a schema none of whose paths is required
ValidatesAnything(file, doc) == TRUE

\* every path of both schemas is `required: true`
Validates(file, doc) ==
  \A path \in SchemaPaths(file) : doc[path] # PathMissing(path)

\* the index on telegramId built without the unique option
IndexNotUnique(docs, doc) == TRUE

\* telegramId is declared `unique: true`
UniqueTelegramId(docs, doc) ==
  \A i \in 1..Len(docs) : docs[i].telegramId # doc.telegramId

\* User.findOne({ telegramId }): the documents that match, oldest first
Matching(docs, telegramId) ==
  SelectSeq(docs, LAMBDA d : d.telegramId = telegramId)

NoUser == [ path \in AllPaths |-> PathMissing(path) ]

\* the lookup filtering on the username path instead of telegramId
findOneByUsername(docs, telegramId) ==
  IF SelectSeq(docs, LAMBDA d : d.username = telegramId) = <<>> THEN NoUser
  ELSE Head(SelectSeq(docs, LAMBDA d : d.username = telegramId))

findOne(docs, telegramId) ==
  IF Matching(docs, telegramId) = <<>> THEN NoUser
  ELSE Head(Matching(docs, telegramId))

(***************************************************************************)
(* Texts a user can send                                                   *)
(***************************************************************************)
\* destination texts, by what the address checks can tell apart
DestTexts ==
  { "evmLower",     \* 0x + 40 lower-case hex digits
    "evmUpper",     \* 0x + 40 upper-case hex digits
    "evmChecksum",  \* 0x + 40 mixed-case hex digits with a valid checksum
    "evmShort",     \* 0x + 39 hex digits
    "evmNo0x",      \* 40 hex digits
    "evmNonHex",    \* 0x + 40 characters, one of them g
    "solOnCurve",   \* base58 of 32 bytes that are a point of the curve
    "solOffCurve",  \* base58 of 32 bytes that are no point of the curve
    "solMalformed", \* no base58 text of 32 bytes
    "/send"         \* the text of the send command
  }

\* amount texts, one character per element
AmountTexts ==
  { <<"0", ".", "0", "5">>, <<"1", ".", "1">>, <<".", "5">>, <<" ", "2">>,
    <<"-", "3">>, <<"0">>, <<"-", "0">>, <<"a", "b", "c">>,
    <<"1", "a", "b", "c">>, <<"1", ",", "5">>,
    <<"/", "s", "e", "n", "d">> }

DigitChars == <<"0", "1", "2", "3", "4", "5", "6", "7", "8", "9">>

IsDigit(c) == \E i \in 1..Len(DigitChars) : DigitChars[i] = c

DigitValue(c) == (CHOOSE i \in 1..Len(DigitChars) : DigitChars[i] = c) - 1

\* length of the longest run of digits of text that starts at position i
RECURSIVE DigitRun(_, _)
DigitRun(text, i) ==
  IF i <= Len(text) /\ IsDigit(text[i]) THEN 1 + DigitRun(text, i + 1) ELSE 0

\* first position of text at or after i that holds no white space
RECURSIVE SkipSpace(_, _)
SkipSpace(text, i) ==
  IF i <= Len(text) /\ text[i] = " " THEN SkipSpace(text, i + 1) ELSE i

\* the number written by the digits of text, read left to right
RECURSIVE DigitsValue(_)
DigitsValue(digits) ==
  IF digits = <<>> THEN 0
  ELSE 10 * DigitsValue(SubSeq(digits, 1, Len(digits) - 1))
       + DigitValue(digits[Len(digits)])

NaN == [nan |-> TRUE, neg |-> FALSE, mant |-> 0, scale |-> 0]

\* the decimal literal [sign] digits [. digits] that starts at position i:
\* its value mant / 10^scale and the position after it (i if there is none)
DecimalAt(text, i) ==
  LET signed  == i <= Len(text) /\ text[i] \in {"+", "-"}
      first   == IF signed THEN i + 1 ELSE i
      intLen  == DigitRun(text, first)
      dot     == first + intLen
      hasDot  == dot <= Len(text) /\ text[dot] = "."
      fracLen == IF hasDot THEN DigitRun(text, dot + 1) ELSE 0
      digits  == SubSeq(text, first, dot - 1)
                   \o SubSeq(text, dot + 1, dot + fracLen)
      after   == IF hasDot /\ (intLen + fracLen > 0) THEN dot + 1 + fracLen
                 ELSE dot
  IN  IF intLen + fracLen = 0
      THEN [value |-> NaN, after |-> i]
      ELSE [value |-> [nan |-> FALSE, neg |-> signed /\ text[i] = "-",
                       mant |-> DigitsValue(digits), scale |-> fracLen],
            after |-> after]

\* parseFloat(text): the longest numeric prefix after leading white space
parseFloat(text) == DecimalAt(text, SkipSpace(text, 1)).value

\* last position of text at or before i that holds no white space
RECURSIVE SkipSpaceBack(_, _)
SkipSpaceBack(text, i) ==
  IF i >= 1 /\ text[i] = " " THEN SkipSpaceBack(text, i - 1) ELSE i

Zero == [nan |-> FALSE, neg |-> FALSE, mant |-> 0, scale |-> 0]

\* Number(text): the whole trimmed text must be a numeric literal; "" is 0
Number(text) ==
  LET from == SkipSpace(text, 1)
      to   == SkipSpaceBack(text, Len(text))
      lit  == DecimalAt(text, from)
  IN  IF from > to THEN Zero
      ELSE IF lit.after = to + 1 THEN lit.value ELSE NaN

\* isNaN(x)
isNaN(x) == x.nan

\* x <= 0
NotPositive(x) == x.neg \/ x.mant = 0

\* the amount check with the comparison dropped
InvalidAmountNaNOnly(amount) == isNaN(parseFloat(amount))

\* if (isNaN(parseFloat(amount)) || parseFloat(amount) <= 0)
InvalidAmount(amount) ==
  isNaN(parseFloat(amount)) \/ NotPositive(parseFloat(amount))

\* isAddress(destAddress) of viem: the address pattern, then the checksum of
\* a text that is not all lower case
isAddress(text) == text \in {"evmLower", "evmChecksum"}

\* PublicKey.isOnCurve(destAddress): new PublicKey(text) throws on a text that
\* is no base58 encoding of 32 bytes
isOnCurve(text) ==
  IF text = "solOnCurve" THEN "true"
  ELSE IF text = "solOffCurve" THEN "false"
  ELSE "throws"

(***************************************************************************)
(* State                                                                   *)
(***************************************************************************)
VARIABLES
  schemaFile,   \* which userSchema the build resolves "../db/models" to
  users,        \* the User collection, in insertion order
  proc,         \* the running /start and /wallet handler invocations
  failed,       \* identities with a provisioning attempt that failed
  commands,     \* command updates received so far
  sess,         \* the guided-transfer conversations
  address,      \* the text last handed to isValidEthereumAddress
  verdict       \* what isValidEthereumAddress returned for it, once called

vars == <<schemaFile, users, proc, failed, commands, sess, address, verdict>>

Idle ==
  [ pc |-> "idle", cmd |-> "", telegramId |-> "", username |-> "",
    ethAccount |-> NoAccount, solanaAccount |-> NoAccount,
    signerCalls |-> {}, writes |-> 0, replies |-> <<>>, progress |-> "",
    shown |-> NoUser, before |-> <<>>, retry |-> FALSE, saveResult |-> "",
    queried |-> {}, answering |-> {}, lookups |-> 0, said |-> <<>> ]

\* a conversation slot before the send command enters it
NoSession ==
  [ pc |-> "idle", cmd |-> "", chain |-> "", chat |-> "", telegramId |-> "", user |-> NoUser,
    destAddress |-> "", amount |-> <<>>, replies |-> <<>>, progress |-> "",
    executorCalls |-> 0, signed |-> <<>>, tx |-> "", escaped |-> FALSE,
    path |-> <<>>, lookups |-> 0, said |-> <<>>, heard |-> <<>>,
    shown |-> <<>> ]

Init ==
  /\ schemaFile \in SchemaFiles
  /\ users = <<>>
  /\ proc = [p \in Procs |-> Idle]
  /\ failed = {}
  /\ commands = 0
  /\ sess = [s \in Sessions |-> NoSession]
  /\ address = <<>>
  /\ verdict = "none"

Reply(p, msg) == Append(proc[p].replies, msg)

\* an exception left a handler: no bot.catch is installed, so the error
\* handler of bot.start() stops the polling and rethrows
Stopped ==
  \/ \E p \in Procs : proc[p].pc = "escaped"
  \/ \E s \in Sessions : sess[s].escaped

\* an update is handled by the first free handler slot
FreeSlot(p) ==
  /\ proc[p].pc = "idle"
  /\ \A q \in Procs : q < p => proc[q].pc # "idle"
  /\ commands < MaxCommands
  /\ ~Stopped

\* the signer answered with both an address and a share
Bound(account) == account.wallet.address # Missing /\ account.share # Missing

(***************************************************************************)
(* isValidEthereumAddress                                                  *)
(***************************************************************************)
\* the {40} of the address pattern
HexLength == 40

\* [a-fA-F0-9]
HexChars ==
  { DigitChars[i] : i \in 1..Len(DigitChars) }
    \cup {"a", "b", "c", "d", "e", "f"} \cup {"A", "B", "C", "D", "E", "F"}

\* the position after n characters of the class, read from position i of
\* text; 0 when a character outside the class, or the end, comes first
RECURSIVE MatchClass(_, _, _, _)
MatchClass(text, i, n, class) ==
  IF n = 0 THEN i
  ELSE IF i <= Len(text) /\ text[i] \in class
       THEN MatchClass(text, i + 1, n - 1, class)
       ELSE 0

\* the pattern without its $ anchor
isValidEthereumAddressUnanchored(text) ==
  /\ Len(text) >= 2
  /\ text[1] = "0"
  /\ text[2] = "x"
  /\ MatchClass(text, 3, HexLength, HexChars) # 0

\* /^0x[a-fA-F0-9]{40}$/.test(address)
isValidEthereumAddress(text) ==
  /\ Len(text) >= 2
  /\ text[1] = "0"
  /\ text[2] = "x"
  /\ MatchClass(text, 3, HexLength, HexChars) = Len(text) + 1

\* how far the length of a candidate body is from HexLength
MaxLengthDelta == 1

PrefixTexts ==
  { <<"0", "x">>, <<"0", "X">>, <<>>, <<"x">>, <<"0">>, <<"1", "x">>, <<" ", "0", "x">> }

FillChars == {"a", "F", "7"}

EditChars == {"a", "F", "0", "g", "G", "x", "z", " ", "-"}

\* prefix, then len characters that alternate between two hex characters,
\* the one at position pos replaced by c
Candidate(prefix, len, odd, even, pos, c) ==
  prefix \o [ i \in 1..len |->
                IF i = pos THEN c ELSE IF i % 2 = 1 THEN odd ELSE even ]

Candidates ==
  { Candidate(prefix, len, odd, even, pos, c) :
      prefix \in PrefixTexts,
      len \in (HexLength - MaxLengthDelta)..(HexLength + MaxLengthDelta),
      odd \in FillChars, even \in {"a", "F"},
      pos \in {1, 2, HexLength - 1, HexLength, HexLength + 1},
      c \in EditChars }

\* a text arrives at the validator
InitAddress ==
  /\ schemaFile \in SchemaFiles
  /\ users = <<>>
  /\ proc = [p \in Procs |-> Idle]
  /\ failed = {}
  /\ commands = 0
  /\ sess = [s \in Sessions |-> NoSession]
  /\ address \in Candidates
  /\ verdict = "none"

\* one call of the validator
ValidateAddress ==
  /\ verdict = "none"
  /\ verdict' = IF isValidEthereumAddress(address) THEN "accept" ELSE "reject"
  /\ UNCHANGED <<schemaFile, users, proc, failed, commands, sess, address>>

NextAddress == ValidateAddress

SpecAddress == InitAddress /\ [][NextAddress]_vars

(***************************************************************************)
(* /start: bot.command("start") and handleStart                            *)
(***************************************************************************)
\* const username = ctx.from?.username?.toString() || telegramId
Username(from) == IF from.username # "" THEN from.username ELSE from.id

\* handleStart without the check of telegramId
StartCommandUnchecked(p, from) ==
  /\ FreeSlot(p)
  /\ commands' = commands + 1
  /\ proc' = [proc EXCEPT ![p] =
       [Idle EXCEPT !.pc = "findOne", !.cmd = "start",
                    !.telegramId = from.id, !.username = Username(from),
                    !.replies = <<"welcome">>,
                    !.before = Matching(users, from.id),
                    !.retry = from.id \in failed]]
  /\ UNCHANGED <<schemaFile, users, failed, sess, address, verdict>>

\* the welcome message, then handleStart up to its first lookup
StartCommand(p, from) ==
  /\ FreeSlot(p)
  /\ commands' = commands + 1
  /\ proc' = [proc EXCEPT ![p] =
       IF from.id = ""
       THEN [Idle EXCEPT !.pc = "done", !.cmd = "start",
                         !.replies = <<"welcome", "error">>]
       ELSE [Idle EXCEPT !.pc = "findOne", !.cmd = "start",
                         !.telegramId = from.id, !.username = Username(from),
                         !.replies = <<"welcome">>,
                         !.before = Matching(users, from.id),
                         !.retry = from.id \in failed]]
  /\ UNCHANGED <<schemaFile, users, failed, sess, address, verdict>>

\* let user = await User.findOne({ telegramId }); if (user) ... else ...
\* The query is outside the try block: when the store does not answer it,
\* the rejection leaves handleStart.
FindUser(p, answers) ==
  /\ proc[p].pc = "findOne"
  /\ proc' = [proc EXCEPT ![p] =
       IF ~answers THEN [@ EXCEPT !.pc = "escaped", !.lookups = @ + 1]
       ELSE IF findOne(users, proc[p].telegramId) # NoUser
       THEN [@ EXCEPT !.pc = "wallet", !.lookups = @ + 1,
                      !.replies = Reply(p, "alreadyRegistered")]
       ELSE [@ EXCEPT !.pc = "generateAccount", !.lookups = @ + 1,
                      !.progress = "generating"]]
  /\ UNCHANGED <<schemaFile, users, failed, commands, sess, address, verdict>>

\* catch (err) { console.error(err); ctx.reply("An error occurred while creating ...") }
CatchCreate(p) ==
  [proc[p] EXCEPT !.pc = "done", !.replies = Reply(p, "createError"),
                  !.said = Append(@, <<"error", "create">>)]

\* the Ethereum wallet persisted as soon as the signer returns it, before the
\* Solana wallet exists
GenerateAccountSavedEarly(p, outcome) ==
  /\ proc[p].pc = "generateAccount"
  /\ IF outcome = "throw"
     THEN /\ proc' = [proc EXCEPT ![p] =
                 [CatchCreate(p) EXCEPT !.signerCalls = @ \cup {"EVM"}]]
          /\ failed' = failed \cup {proc[p].telegramId}
          /\ UNCHANGED users
     ELSE /\ proc' = [proc EXCEPT ![p] =
                 [@ EXCEPT !.pc = "generateSolanaAccount",
                           !.signerCalls = @ \cup {"EVM"},
                           !.writes = @ + 1,
                           !.ethAccount =
                              generateAccount(proc[p].telegramId, outcome)]]
          /\ users' = Append(users,
                 [NoUser EXCEPT
                    !.telegramId = proc[p].telegramId,
                    !.username = proc[p].username,
                    !.evmAddress =
                       generateAccount(proc[p].telegramId, outcome).wallet.address,
                    !.evmUserShare =
                       generateAccount(proc[p].telegramId, outcome).share])
          /\ UNCHANGED failed
  /\ UNCHANGED <<schemaFile, commands, sess, address, verdict>>

\* const ethAccount = await generateAccount(telegramId)
GenerateAccount(p, outcome) ==
  /\ proc[p].pc = "generateAccount"
  /\ IF outcome = "throw"
     THEN /\ proc' = [proc EXCEPT ![p] =
                 [CatchCreate(p) EXCEPT !.signerCalls = @ \cup {"EVM"}]]
          /\ failed' = failed \cup {proc[p].telegramId}
     ELSE /\ proc' = [proc EXCEPT ![p] =
                 [@ EXCEPT !.pc = "generateSolanaAccount",
                           !.signerCalls = @ \cup {"EVM"},
                           !.ethAccount =
                              generateAccount(proc[p].telegramId, outcome)]]
          /\ UNCHANGED failed
  /\ UNCHANGED <<schemaFile, users, commands, sess, address, verdict>>

\* if (!evmAddress || !solanaAddress)
AddressMissing(evmAddress, solanaAddress) ==
  evmAddress = Missing \/ solanaAddress = Missing

\* const solanaAccount = await generateSolanaAccount(telegramId), then the
\* address check
GenerateSolanaAccount(p, outcome) ==
  /\ proc[p].pc = "generateSolanaAccount"
  /\ LET solanaAccount == generateSolanaAccount(proc[p].telegramId, outcome)
         called == [proc[p] EXCEPT !.signerCalls = @ \cup {"SOLANA"}]
     IN  /\ proc' = [proc EXCEPT ![p] =
               IF outcome = "throw"
               THEN [CatchCreate(p) EXCEPT !.signerCalls = @ \cup {"SOLANA"}]
               ELSE IF AddressMissing(proc[p].ethAccount.wallet.address,
                                      solanaAccount.wallet.address)
               THEN [called EXCEPT !.pc = "done", !.progress = "failedCreate",
                                   !.solanaAccount = solanaAccount]
               ELSE [called EXCEPT !.pc = "save",
                                   !.solanaAccount = solanaAccount]]
         /\ failed' = IF outcome = "ok" /\ Bound(proc[p].ethAccount)
                      THEN failed ELSE failed \cup {proc[p].telegramId}
  /\ UNCHANGED <<schemaFile, users, commands, sess, address, verdict>>

\* user = new User({ telegramId, username, evmUserShare, evmAddress,
\*                   solanaUserShare, solanaAddress })
BuildUser(p) ==
  NewUser(schemaFile,
    [ telegramId      |-> proc[p].telegramId,
      username        |-> proc[p].username,
      evmUserShare    |-> proc[p].ethAccount.share,
      evmAddress      |-> proc[p].ethAccount.wallet.address,
      solanaUserShare |-> proc[p].solanaAccount.share,
      solanaAddress   |-> proc[p].solanaAccount.wallet.address ])

\* how document.save() ends: validation first, then the insert, which the
\* unique index on telegramId can reject
SaveResult(file, docs, doc) ==
  IF ~Validates(file, doc) THEN "ValidationError"
  ELSE IF ~UniqueTelegramId(docs, doc) THEN "DuplicateKey"
  ELSE "saved"

\* the document saved a second time after the success message
SaveTwice(p) ==
  /\ proc[p].pc = "save"
  /\ LET result == SaveResult(schemaFile, users, BuildUser(p))
     IN  IF result = "saved"
         THEN /\ users' = Append(users, BuildUser(p))
              /\ proc' = [proc EXCEPT ![p] =
                    [@ EXCEPT !.pc = "wallet", !.writes = @ + 2,
                              !.progress = "created", !.saveResult = result]]
         ELSE /\ proc' = [proc EXCEPT ![p] =
                    [CatchCreate(p) EXCEPT !.saveResult = result]]
              /\ UNCHANGED users
  /\ UNCHANGED <<schemaFile, failed, commands, sess, address, verdict>>

\* a save that writes the document over the oldest one of the collection
replaceOne(docs, doc) == IF docs = <<>> THEN <<doc>> ELSE <<doc>> \o Tail(docs)

\* user.save() of a new document inserts it
insertOne(docs, doc) == Append(docs, doc)

\* await user.save(), then the success message or the catch block
Save(p) ==
  /\ proc[p].pc = "save"
  /\ LET result == SaveResult(schemaFile, users, BuildUser(p))
     IN  IF result = "saved"
         THEN /\ users' = insertOne(users, BuildUser(p))
              /\ proc' = [proc EXCEPT ![p] =
                    [@ EXCEPT !.pc = "wallet", !.writes = @ + 1,
                              !.progress = "created", !.saveResult = result]]
         ELSE /\ proc' = [proc EXCEPT ![p] =
                    [CatchCreate(p) EXCEPT !.saveResult = result]]
              /\ UNCHANGED users
  /\ UNCHANGED <<schemaFile, failed, commands, sess, address, verdict>>

(***************************************************************************)
(* /wallet: handleWallet, also called at the end of handleStart            *)
(***************************************************************************)
WalletCommand(p, from) ==
  /\ FreeSlot(p)
  /\ commands' = commands + 1
  /\ proc' = [proc EXCEPT ![p] =
       IF from.id = ""
       THEN [Idle EXCEPT !.pc = "done", !.cmd = "wallet",
                         !.replies = <<"error">>]
       ELSE [Idle EXCEPT !.pc = "wallet", !.cmd = "wallet",
                         !.telegramId = from.id,
                         !.before = Matching(users, from.id)]]
  /\ UNCHANGED <<schemaFile, users, failed, sess, address, verdict>>

\* the values the wallets message carries: ${evmAddress} and ${solanaAddress}
WalletsShown(user) == <<user.evmAddress, user.solanaAddress>>

\* const user = await User.findOne({ telegramId }), then the addresses; the
\* query is outside the try block of handleWallet
HandleWallet(p, answers) ==
  /\ proc[p].pc = "wallet"
  /\ LET user == findOne(users, proc[p].telegramId)
     IN  proc' = [proc EXCEPT ![p] =
           IF ~answers THEN [@ EXCEPT !.pc = "escaped", !.lookups = @ + 1]
           ELSE IF user = NoUser
           THEN [@ EXCEPT !.pc = "done", !.lookups = @ + 1,
                          !.replies = Reply(p, "noAccount")]
           ELSE [@ EXCEPT !.pc = "balances", !.shown = user,
                          !.lookups = @ + 1,
                          !.replies = Reply(p, "wallets"),
                          !.said = @ \o WalletsShown(user)]]
  /\ UNCHANGED <<schemaFile, users, failed, commands, sess, address, verdict>>

\* the balance queries inside one try block: the Solana query is issued only
\* after the Ethereum balance was fetched and displayed; ethOk and solOk tell
\* whether the RPC endpoint of the chain answers a getBalance
Balances(p, ethOk, solOk) ==
  /\ proc[p].pc = "balances"
  /\ proc' = [proc EXCEPT ![p] =
       [@ EXCEPT !.pc = "done",
                 !.queried = IF ethOk THEN Chains ELSE {"EVM"},
                 !.answering = {c \in Chains : IF c = "EVM" THEN ethOk ELSE solOk},
                 !.said = @ \o
                    (IF ethOk THEN <<<<"balance", "EVM">>>> ELSE <<>>)
                    \o (IF ethOk /\ solOk THEN <<<<"balance", "SOLANA">>>>
                        ELSE <<<<"error", "balances">>>>),
                 !.replies =
                    IF ~ethOk THEN Reply(p, "balanceError")
                    ELSE IF ~solOk
                    THEN Reply(p, "ethBalance") \o <<"balanceError">>
                    ELSE Reply(p, "ethBalance") \o <<"solBalance">>]]
  /\ UNCHANGED <<schemaFile, users, failed, commands, sess, address, verdict>>

\* the handler's promise resolves; the slot serves the next update
Return(p) ==
  /\ proc[p].pc = "done"
  /\ proc' = [proc EXCEPT ![p] = Idle]
  /\ UNCHANGED <<schemaFile, users, failed, commands, sess, address, verdict>>

(***************************************************************************)
(* The guided transfers: transferETHConversation, transferSOLConversation  *)
(***************************************************************************)
\* the state of the transfer a conversation slot is in
State(s) == IF sess[s].pc \in {"idle", "refused"} THEN "Start" ELSE sess[s].pc

\* the conversation moves to a state; a conversation that ends leaves the
\* session of its chat
Goto(session, state) ==
  [session EXCEPT !.pc = state, !.path = Append(@, state),
                  !.chat = IF state \in {"Completed", "Aborted"} THEN "" ELSE @]

\* the stores that /start commands leave behind under a userSchema
ProvisionedUser(file, from) ==
  NewUser(file,
    [ telegramId      |-> from.id,
      username        |-> Username(from),
      evmUserShare    |-> generateAccount(from.id, "ok").share,
      evmAddress      |-> generateAccount(from.id, "ok").wallet.address,
      solanaUserShare |-> generateSolanaAccount(from.id, "ok").share,
      solanaAddress   |-> generateSolanaAccount(from.id, "ok").wallet.address ])

ProvisionedStores(file) ==
  { docs \in UNION { [1..n -> { ProvisionedUser(file, u) : u \in TelegramUsers }] :
                       n \in 0..Cardinality(TelegramUsers) } :
      /\ \A i \in 1..Len(docs) : Validates(file, docs[i])
      /\ \A i, j \in 1..Len(docs) : i # j => docs[i].telegramId # docs[j].telegramId }

InitTransfer ==
  /\ schemaFile \in SchemaFiles
  /\ users \in ProvisionedStores(schemaFile)
  /\ proc = [p \in Procs |-> Idle]
  /\ failed = {}
  /\ commands = 0
  /\ sess = [s \in Sessions |-> NoSession]
  /\ address = <<>>
  /\ verdict = "none"

\* the bot.command registrations and, for the command that enters a
\* conversation, the function given to createConversation under its name
Registered == {"start", "wallet", "send"}

Wiring == [send |-> "transferConversation"]

\* the conversation functions callbacks.ts exports, by chain
Exported == [EVM |-> "transferETHConversation", SOLANA |-> "transferSOLConversation"]

\* a conversation that has not ended
Active(s) == sess[s].pc \in {"AwaitingAddress", "AwaitingAmount", "Executing"}

\* ctx.chat of an update: the private chat of the sender or a group the bot
\* was added to; a channel post has no sender
ChatsOf(from) == IF from.id = "" THEN {"channel"} ELSE {from.id, "group"}

\* session() with no getSessionKey keeps the conversations of a chat under
\* the chat id. The conversations middleware is installed before
\* bot.command("send"): the text of an update of a chat with a waiting
\* conversation is handed to that conversation and goes no further, and
\* bot.start() handles one update at a time, the executor call of a
\* conversation included
Busy(chat) ==
  \E r \in Sessions : Active(r) /\ sess[r].chat = chat

\* the conversation entered without the check of the lookup result
EnterConversationUnchecked(s, from, chat, chain, answers) ==
  /\ sess[s].pc = "idle"
  /\ ~Stopped
  /\ chat \in ChatsOf(from)
  /\ ~Busy(chat)
  /\ commands < MaxCommands
  /\ \A r \in Sessions : r < s => sess[r].pc # "idle"
  /\ commands' = commands + 1
  /\ LET user == findOne(users, from.id)
         here == [NoSession EXCEPT !.cmd = "send", !.chain = chain,
                                   !.telegramId = from.id]
         asked == [here EXCEPT !.lookups = 1]
     IN  sess' = [sess EXCEPT ![s] =
           IF from.id = ""
           THEN [here EXCEPT !.pc = "refused", !.replies = <<"error">>]
           ELSE IF ~answers
           THEN [asked EXCEPT !.pc = "refused", !.escaped = TRUE]
           ELSE [Goto(asked, "AwaitingAddress") EXCEPT
                   !.chat = chat, !.user = user, !.replies = <<"askAddress">>]]
  /\ UNCHANGED <<schemaFile, users, proc, failed, address, verdict>>

\* the send command enters the conversation: the identity check, the lookup
\* and the prompt for the destination
EnterConversation(s, from, chat, chain, answers) ==
  /\ sess[s].pc = "idle"
  /\ ~Stopped
  /\ chat \in ChatsOf(from)
  /\ ~Busy(chat)
  /\ commands < MaxCommands
  /\ \A r \in Sessions : r < s => sess[r].pc # "idle"
  /\ commands' = commands + 1
  /\ LET user == findOne(users, from.id)
         here == [NoSession EXCEPT !.cmd = "send", !.chain = chain,
                                   !.telegramId = from.id]
         asked == [here EXCEPT !.lookups = 1]
     IN  sess' = [sess EXCEPT ![s] =
           IF from.id = ""
           THEN [here EXCEPT !.pc = "refused", !.replies = <<"error">>]
           ELSE IF ~answers
           THEN [asked EXCEPT !.pc = "refused", !.escaped = TRUE]
           ELSE IF user = NoUser
           THEN [asked EXCEPT !.pc = "refused", !.replies = <<"registerFirst">>]
           ELSE [Goto(asked, "AwaitingAddress") EXCEPT
                   !.chat = chat, !.user = user, !.replies = <<"askAddress">>]]
  /\ UNCHANGED <<schemaFile, users, proc, failed, address, verdict>>

\* a wait that returns the text of an update and leaves the update to the
\* next wait
waitForPeeking(session, prompt, text) == session

\* conversation.waitFor("message:text"): the conversation resumes with the
\* next text message of its chat, which no later wait sees again
waitFor(session, prompt, text) ==
  [session EXCEPT !.heard = Append(@, [after |-> prompt, text |-> text])]

\* conversation.waitFor("message:text") returns the destination; the address
\* check of the chain; the prompt for the amount
ReceiveAddress(s, text) ==
  /\ sess[s].pc = "AwaitingAddress"
  /\ ~Stopped
  /\ LET got     == [waitFor(sess[s], "askAddress", text) EXCEPT
                       !.destAddress = text]
         valid   == IF sess[s].chain = "EVM" THEN isAddress(text)
                    ELSE isOnCurve(text) = "true"
         escapes == sess[s].chain = "SOLANA" /\ isOnCurve(text) = "throws"
     IN  sess' = [sess EXCEPT ![s] =
           IF escapes
           THEN [Goto(got, "Aborted") EXCEPT !.escaped = TRUE]
           ELSE IF ~valid
           THEN [Goto(got, "Aborted") EXCEPT
                   !.replies = Append(@, "invalidAddress")]
           ELSE [Goto(got, "AwaitingAmount") EXCEPT
                   !.replies = Append(@, "askAmount")]]
  /\ UNCHANGED <<schemaFile, users, proc, failed, commands, address, verdict>>

\* const msg = await ctx.reply(`Sending ...`): the progress message
sendProgress(session) ==
  [session EXCEPT !.progress = "sending", !.shown = Append(@, "sending")]

\* an edit of the progress message that does not reach the chat
editMessageTextLost(session, text) == session

\* ctx.api.editMessageText(msg.chat.id, msg.message_id, text)
editMessageText(session, text) ==
  [session EXCEPT !.progress = text, !.shown = Append(@, text)]

\* the amount check without its return: the conversation goes on to the
\* executor after the invalid-amount message
ReceiveAmountNoReturn(s, text) ==
  /\ sess[s].pc = "AwaitingAmount"
  /\ ~Stopped
  /\ LET got == sendProgress(
                  [waitFor(sess[s], "askAmount", text) EXCEPT
                     !.amount = text,
                     !.said = @ \o <<<<"amount", text>>,
                                     <<"text", sess[s].destAddress>>>>])
     IN  sess' = [sess EXCEPT ![s] =
           IF InvalidAmount(text)
           THEN editMessageText(Goto(Goto(got, "Aborted"), "Executing"),
                                "invalidAmount")
           ELSE Goto(got, "Executing")]
  /\ UNCHANGED <<schemaFile, users, proc, failed, commands, address, verdict>>

\* conversation.waitFor("message:text") returns the amount; the progress
\* message; the amount check
ReceiveAmount(s, text) ==
  /\ sess[s].pc = "AwaitingAmount"
  /\ ~Stopped
  /\ LET got == sendProgress(
                  [waitFor(sess[s], "askAmount", text) EXCEPT
                     !.amount = text,
                     !.said = @ \o <<<<"amount", text>>,
                                     <<"text", sess[s].destAddress>>>>])
     IN  sess' = [sess EXCEPT ![s] =
           IF InvalidAmount(text)
           THEN editMessageText(Goto(got, "Aborted"), "invalidAmount")
           ELSE Goto(got, "Executing")]
  /\ UNCHANGED <<schemaFile, users, proc, failed, commands, address, verdict>>

\* 10 ** 18 wei in one ETH
WeiDecimals == 18

\* LAMPORTS_PER_SOL is 10 ** 9
LamportDecimals == 9

RECURSIVE Pow10(_)
Pow10(n) == IF n = 0 THEN 1 ELSE 10 * Pow10(n - 1)

\* natural numbers of any size: limbs of four decimal digits, the least
\* significant limb first, no zero limb at the end
LimbDigits == 4

Limb == Pow10(LimbDigits)

RECURSIVE Big(_)
Big(n) == IF n = 0 THEN <<>> ELSE <<n % Limb>> \o Big(n \div Limb)

\* a * m + carry for a factor m below 2^16
RECURSIVE MulPlus(_, _, _)
MulPlus(a, m, carry) ==
  IF a = <<>> THEN Big(carry)
  ELSE <<(Head(a) * m + carry) % Limb>>
         \o MulPlus(Tail(a), m, (Head(a) * m + carry) \div Limb)

Mul(a, m) == MulPlus(a, m, 0)

Succ(a) == MulPlus(a, 1, 1)

\* quotient and remainder of a by a divisor m below 2^16
RECURSIVE DivRem(_, _)
DivRem(a, m) ==
  IF a = <<>> THEN [quot |-> <<>>, rem |-> 0]
  ELSE LET high == DivRem(Tail(a), m)
           cur  == high.rem * Limb + Head(a)
       IN  [ quot |-> IF cur \div m = 0 /\ high.quot = <<>> THEN <<>>
                      ELSE <<cur \div m>> \o high.quot,
             rem  |-> cur % m ]

Less(a, b) ==
  \/ Len(a) < Len(b)
  \/ /\ Len(a) = Len(b)
     /\ \E i \in 1..Len(a) :
          a[i] < b[i] /\ \A j \in (i + 1)..Len(a) : a[j] = b[j]

\* a * 10^k
Times10(a, k) ==
  IF a = <<>> THEN a
  ELSE [i \in 1..(k \div LimbDigits) |-> 0] \o Mul(a, Pow10(k % LimbDigits))

\* the quotient of a by 10^k, and whether a remainder is left
Over10(a, k) ==
  LET limbs == k \div LimbDigits
      d     == DivRem(SubSeq(a, limbs + 1, Len(a)), Pow10(k % LimbDigits))
  IN  [ quot |-> d.quot,
        rest |-> d.rem # 0 \/ \E i \in 1..limbs : i <= Len(a) /\ a[i] # 0 ]

\* binary shifts go eight bits at a time where they can
Byte == 256

\* a * 2^e
RECURSIVE Raise(_, _)
Raise(a, e) ==
  IF e = 0 THEN a
  ELSE IF e >= 8 THEN Raise(Mul(a, Byte), e - 8)
  ELSE Raise(Mul(a, 2), e - 1)

\* a JavaScript number is an IEEE 754 double: 53 significant bits
MantissaBits == 53

MantissaEnd == Raise(<<1>>, MantissaBits)

\* r.x * 2^r.e with bits low bits of r.x shifted out (m = 2^bits); sticky
\* records that a bit that is not zero was shifted out
Cut(r, m, bits) ==
  LET d == DivRem(r.x, m)
  IN  [x |-> d.quot, e |-> r.e + bits, sticky |-> r.sticky \/ d.rem # 0]

\* r shifted right until r.x is below 2^54
RECURSIVE Narrow(_)
Narrow(r) ==
  IF Less(r.x, Mul(MantissaEnd, 2)) THEN r
  ELSE IF Less(r.x, Mul(MantissaEnd, 2 * Byte)) THEN Narrow(Cut(r, 2, 1))
  ELSE Narrow(Cut(r, Byte, 8))

\* the double nearest to a * 2^e (to a little more when sticky), ties to even
Nearest(a, e, sticky) ==
  LET n  == Narrow([x |-> a, e |-> e, sticky |-> sticky])
      h  == DivRem(n.x, 2)
      up == h.rem = 1 /\ (n.sticky \/ h.quot[1] % 2 = 1)
  IN  IF Less(n.x, MantissaEnd) THEN [mant |-> n.x, exp |-> n.e]
      ELSE [mant |-> IF up THEN Succ(h.quot) ELSE h.quot, exp |-> n.e + 1]

\* n shifted left until n / 10^k is at least 2^53
RECURSIVE Widen(_, _, _)
Widen(n, k, e) ==
  IF ~Less(Over10(n, k).quot, MantissaEnd) THEN [n |-> n, e |-> e]
  ELSE IF Less(Over10(Mul(n, Byte), k).quot, MantissaEnd)
  THEN Widen(Mul(n, Byte), k, e - 8)
  ELSE Widen(Mul(n, 2), k, e - 1)

\* the number a decimal literal x.mant / 10^x.scale denotes: the nearest
\* double, mant * 2^exp
Double(x) ==
  IF x.nan \/ x.mant = 0
  THEN [nan |-> x.nan, neg |-> x.neg, mant |-> <<>>, exp |-> 0]
  ELSE LET w == Widen(Big(x.mant), x.scale, 0)
           q == Over10(w.n, x.scale)
           d == Nearest(q.quot, w.e, q.rest)
       IN  [nan |-> FALSE, neg |-> x.neg, mant |-> d.mant, exp |-> d.exp]

\* d * 10 ** decimals in double arithmetic; 10^9 and 10^18 are doubles
Product(d, decimals) ==
  IF d.nan \/ d.mant = <<>> THEN d
  ELSE LET p == Nearest(Times10(d.mant, decimals), d.exp, FALSE)
       IN  [d EXCEPT !.mant = p.mant, !.exp = p.exp]

\* r shifted right until its exponent is not negative
RECURSIVE Lower(_)
Lower(r) ==
  IF r.e >= 0 THEN r
  ELSE IF r.e <= -8 THEN Lower(Cut(r, Byte, 8))
  ELSE Lower(Cut(r, 2, 1))

\* BigInt(d): the integer d is; a RangeError for NaN and for a fraction
BigInt(d) ==
  LET r == Lower([x |-> d.mant, e |-> d.exp, sticky |-> FALSE])
  IN  IF d.nan \/ r.sticky THEN [whole |-> FALSE, neg |-> d.neg, digits |-> <<>>]
      ELSE [whole |-> TRUE, neg |-> d.neg, digits |-> Raise(r.x, r.e)]

\* BigInt(x * 10 ** decimals) for the double of the literal x
SmallestUnit(x, decimals) == BigInt(Product(Double(x), decimals))

\* the conversions of the amounts of a run, each computed once:
\* BigInt(Number(amountInETH) * 10 ** 18), and
\* LAMPORTS_PER_SOL * parseFloat(amountInSOL) in the u64 field of the transfer
Converted ==
  [ text \in AmountTexts |->
      [ EVM    |-> SmallestUnit(Number(text), WeiDecimals),
        SOLANA |-> SmallestUnit(parseFloat(text), LamportDecimals) ] ]

\* BigInt(x) and the u64 encoding of lamports throw on NaN and on fractions
Whole(v) == v.whole

\* the executors loading the share of the other chain
DispatchedOtherShare(session) ==
  IF session.chain = "EVM"
  THEN [ share |-> session.user.solanaUserShare, to |-> session.destAddress,
         value |-> Converted[session.amount].EVM ]
  ELSE [ share |-> session.user.evmUserShare, to |-> session.destAddress,
         value |-> Converted[session.amount].SOLANA ]

\* what sendTransaction / sendSolanaTransaction hands to the signer
Dispatched(session) ==
  IF session.chain = "EVM"
  THEN [ share |-> session.user.evmUserShare, to |-> session.destAddress,
         value |-> Converted[session.amount].EVM ]
  ELSE [ share |-> session.user.solanaUserShare, to |-> session.destAddress,
         value |-> Converted[session.amount].SOLANA ]

ExecutorOutcomes == {"ok", "rpcFails", "signerFails"}

\* the executor logging the user object it was handed
ExecutorLogsUser(session, sent) ==
  << session.user.evmAddress, session.user.evmUserShare,
     session.user.solanaAddress, session.user.solanaUserShare >>
  \o (IF sent THEN <<<<"tx", "hash">>>> ELSE <<<<"error", "send">>>>)

\* what the executor and the catch block of the conversation write to the
\* console: sendSolanaTransaction logs the address of the signer, the sender
\* and the recipient; a send logs its transaction hash, a failure its error
ExecutorLogs(session, sent) ==
  (IF session.chain = "SOLANA"
   THEN << session.user.solanaAddress, session.user.solanaAddress,
           <<"text", session.destAddress>> >>
   ELSE <<>>)
  \o (IF sent THEN <<<<"tx", "hash">>>> ELSE <<<<"error", "send">>>>)

\* `Successfully sent ${amount} to ${destAddress} ... ${res.tx}`
Confirmation(session) ==
  << <<"amount", session.amount>>, <<"text", session.destAddress>>,
     <<"tx", "hash">> >>

\* the executor called a second time after a failed send
ExecuteRetried(s, outcome) ==
  /\ sess[s].pc = "Executing"
  /\ LET called  == [sess[s] EXCEPT !.executorCalls = @ + 1]
         call    == Dispatched(sess[s])
         reaches == /\ Whole(call.value)
                    /\ ~(sess[s].chain = "SOLANA" /\ outcome = "rpcFails")
         signed  == [called EXCEPT !.signed = Append(@, call)]
     IN  sess' = [sess EXCEPT ![s] =
           IF ~reaches
           THEN [editMessageText(Goto(called, "Aborted"), "sendFailed") EXCEPT
                   !.said = @ \o ExecutorLogs(sess[s], FALSE)]
           ELSE IF outcome = "ok"
           THEN [editMessageText(Goto(signed, "Completed"), "sent") EXCEPT
                   !.tx = "hash",
                   !.said = @ \o ExecutorLogs(sess[s], TRUE)
                              \o Confirmation(sess[s])]
           ELSE [editMessageText(Goto(signed, "Aborted"), "sendFailed") EXCEPT
                   !.said = @ \o ExecutorLogs(sess[s], FALSE),
                   !.executorCalls = @ + 1, !.signed = Append(@, call)]]
  /\ UNCHANGED <<schemaFile, users, proc, failed, commands, address, verdict>>

\* the executor call inside the try block, then the confirmation or the
\* failure message
Execute(s, outcome) ==
  /\ sess[s].pc = "Executing"
  /\ LET called  == [sess[s] EXCEPT !.executorCalls = @ + 1]
         call    == Dispatched(sess[s])
         reaches == /\ Whole(call.value)
                    /\ ~(sess[s].chain = "SOLANA" /\ outcome = "rpcFails")
         signed  == [called EXCEPT !.signed = Append(@, call)]
     IN  sess' = [sess EXCEPT ![s] =
           IF ~reaches
           THEN [editMessageText(Goto(called, "Aborted"), "sendFailed") EXCEPT
                   !.said = @ \o ExecutorLogs(sess[s], FALSE)]
           ELSE IF outcome = "ok"
           THEN [editMessageText(Goto(signed, "Completed"), "sent") EXCEPT
                   !.tx = "hash",
                   !.said = @ \o ExecutorLogs(sess[s], TRUE)
                              \o Confirmation(sess[s])]
           ELSE [editMessageText(Goto(signed, "Aborted"), "sendFailed") EXCEPT
                   !.said = @ \o ExecutorLogs(sess[s], FALSE)]]
  /\ UNCHANGED <<schemaFile, users, proc, failed, commands, address, verdict>>

\* the collection lives in the MongoDB server behind MONGO_URI, which other
\* clients write to: the document of an identity is deleted while
\* conversations are under way
RemoveAccount(telegramId) ==
  /\ Matching(users, telegramId) # <<>>
  /\ users' = SelectSeq(users, LAMBDA d : d.telegramId # telegramId)
  /\ UNCHANGED <<schemaFile, proc, failed, commands, sess, address, verdict>>

NextTransfer ==
  \/ \E s \in Sessions, from \in Froms, chain \in Chains, answers \in BOOLEAN :
        \E chat \in ChatsOf(from) : EnterConversation(s, from, chat, chain, answers)
  \/ \E id \in Ids : RemoveAccount(id)
  \/ \E s \in Sessions, text \in DestTexts : ReceiveAddress(s, text)
  \/ \E s \in Sessions, text \in AmountTexts : ReceiveAmount(s, text)
  \/ \E s \in Sessions, o \in ExecutorOutcomes : Execute(s, o)

SpecTransfer == InitTransfer /\ [][NextTransfer]_vars

\* the user of a waiting conversation sends the next message, and the call of
\* the executor returns or throws
Fairness ==
  \A s \in Sessions :
    /\ WF_vars(\E text \in DestTexts : ReceiveAddress(s, text))
    /\ WF_vars(\E text \in AmountTexts : ReceiveAmount(s, text))
    /\ WF_vars(\E o \in ExecutorOutcomes : Execute(s, o))

SpecTransferLive == SpecTransfer /\ Fairness

Next ==
  \/ \E p \in Procs, from \in Froms : StartCommand(p, from)
  \/ \E p \in Procs, answers \in BOOLEAN : FindUser(p, answers)
  \/ \E p \in Procs, o \in SignerOutcomes : GenerateAccount(p, o)
  \/ \E p \in Procs, o \in SignerOutcomes : GenerateSolanaAccount(p, o)
  \/ \E p \in Procs : Save(p)
  \/ \E p \in Procs, from \in Froms : WalletCommand(p, from)
  \/ \E p \in Procs, answers \in BOOLEAN : HandleWallet(p, answers)
  \/ \E p \in Procs, ethOk \in BOOLEAN, solOk \in BOOLEAN :
        Balances(p, ethOk, solOk)
  \/ \E p \in Procs : Return(p)

Spec == Init /\ [][Next]_vars

\* the three commands of the bot side by side, the send command up to the
\* first wait of its conversation
NextCommands ==
  \/ Next
  \/ \E s \in Sessions, from \in Froms, chain \in Chains, answers \in BOOLEAN :
        \E chat \in ChatsOf(from) : EnterConversation(s, from, chat, chain, answers)

SpecCommands == Init /\ [][NextCommands]_vars

\* the bot handling one update at a time: one handler and one conversation
NextSequential ==
  \/ \E from \in Froms : StartCommand(1, from)
  \/ \E answers \in BOOLEAN : FindUser(1, answers)
  \/ \E o \in SignerOutcomes : GenerateAccount(1, o)
  \/ \E o \in SignerOutcomes : GenerateSolanaAccount(1, o)
  \/ Save(1)
  \/ \E from \in Froms : WalletCommand(1, from)
  \/ \E answers \in BOOLEAN : HandleWallet(1, answers)
  \/ \E ethOk \in BOOLEAN, solOk \in BOOLEAN : Balances(1, ethOk, solOk)
  \/ Return(1)
  \/ \E from \in Froms, chain \in Chains, answers \in BOOLEAN :
        \E chat \in ChatsOf(from) : EnterConversation(1, from, chat, chain, answers)
  \/ \E text \in DestTexts : ReceiveAddress(1, text)
  \/ \E text \in AmountTexts : ReceiveAmount(1, text)
  \/ \E o \in ExecutorOutcomes : Execute(1, o)

SpecSequential == Init /\ [][NextSequential]_vars

(***************************************************************************)
(* Provisioning: properties                                                *)
(***************************************************************************)
\* the attempt was told that provisioning failed
FailureReported(p) ==
  \/ proc[p].progress = "failedCreate"
  \/ \E i \in 1..Len(proc[p].replies) : proc[p].replies[i] = "createError"

\* the signer threw or returned a wallet without an address, for either chain
SignerFailed(p) ==
  \/ "EVM" \in proc[p].signerCalls
       /\ proc[p].ethAccount.wallet.address = Missing
  \/ "SOLANA" \in proc[p].signerCalls
       /\ proc[p].solanaAccount.wallet.address = Missing

\* the signer returned an address and a share for both chains
SignerSucceeded(p) ==
  /\ proc[p].signerCalls = Chains
  /\ Bound(proc[p].ethAccount)
  /\ Bound(proc[p].solanaAccount)

\* C1: a /start for an identity that already has an account displays that
\* account, calls the signer for no chain, writes nothing and leaves the
\* stored record of the identity as it was.
ProvisionIdempotent ==
  \A p \in Procs :
    (proc[p].cmd = "start" /\ proc[p].before # <<>>) =>
      /\ proc[p].signerCalls = {}
      /\ proc[p].writes = 0
      /\ proc[p].pc \in {"findOne", "wallet", "balances", "done", "escaped"}
      /\ Matching(users, proc[p].telegramId) = proc[p].before
      /\ (proc[p].pc \in {"balances", "done"} =>
            /\ proc[p].shown = Head(proc[p].before)
            /\ ~FailureReported(p))

\* a second /start of a registered identity has run to its end
SecondStartDone ==
  \E p \in Procs :
    /\ proc[p].cmd = "start"
    /\ proc[p].before # <<>>
    /\ proc[p].pc = "done"
    /\ proc[p].shown = Head(proc[p].before)

\* C2: whatever the interleaving of the provisioning attempts, the store
\* holds at most one account per identity, and of the attempts in flight for
\* an identity at most one has inserted.
OneAccountPerIdentity ==
  \A id \in Ids :
    /\ Len(Matching(users, id)) <= 1
    /\ \A p, q \in Procs :
         (p # q /\ proc[p].telegramId = id /\ proc[q].telegramId = id) =>
            proc[p].writes + proc[q].writes <= 1

\* two attempts for one identity both passed the lookup and both reached the
\* insert: one inserted, the other was rejected by the unique index
RacingInserts ==
  \E p, q \in Procs :
    /\ p # q
    /\ proc[p].telegramId = proc[q].telegramId
    /\ proc[p].saveResult = "saved"
    /\ proc[q].saveResult = "DuplicateKey"

\* C3 (as claimed): an attempt whose insert the unique index rejected shows
\* the account that is already stored and reports no failure.
ConflictMeansAlreadyProvisioned ==
  \A p \in Procs :
    (proc[p].saveResult = "DuplicateKey" /\ proc[p].pc = "done") =>
      /\ proc[p].shown = findOne(users, proc[p].telegramId)
      /\ ~FailureReported(p)

\* what holds of an attempt once the signer has failed for a chain
FailedAttempt(p) ==
  (proc[p].cmd = "start" /\ SignerFailed(p)) =>
    /\ proc[p].writes = 0
    /\ proc[p].pc \in {"generateSolanaAccount", "done"}
    /\ (proc[p].pc = "done" => FailureReported(p) /\ proc[p].progress # "created")

\* C4: an attempt in which the signer failed for a chain writes nothing, never
\* reaches the insert, ends with a failure message, and none of its steps
\* changes the store.
CreationAtomic ==
  [][ \A p \in Procs :
        /\ FailedAttempt(p)'
        /\ (proc'[p] # proc[p] /\ SignerFailed(p)' => users' = users) ]_vars

\* an attempt ended in failure after the signer failed for a chain
SignerFailureReported ==
  \E p \in Procs :
    /\ proc[p].pc = "done"
    /\ SignerFailed(p)
    /\ FailureReported(p)
    /\ Matching(users, proc[p].telegramId) = <<>>

\* C5 (as claimed): a /start that retries after a failed attempt, finds no
\* account and gets both wallets from the signer persists the account and
\* reports success.
RetrySucceeds ==
  \A p \in Procs :
    ( /\ proc[p].cmd = "start"
      /\ proc[p].retry
      /\ proc[p].before = <<>>
      /\ proc[p].pc = "done"
      /\ SignerSucceeded(p)
      /\ proc[p].saveResult # "DuplicateKey" ) =>
        /\ proc[p].writes = 1
        /\ proc[p].progress = "created"
        /\ Matching(users, proc[p].telegramId) # <<>>

\* the durable writes of one attempt
WritesOfAttempt(p) ==
  /\ proc[p].writes <= 1
  /\ (proc[p].writes = 1 => SignerSucceeded(p))
  /\ (proc[p].progress = "created" => proc[p].writes = 1)

\* C6: an attempt writes at most once; it writes only when it holds the
\* bindings of both chains; a successful attempt has written exactly once;
\* and the store changes only in the insert step of an attempt.
OneWritePerProvisioning ==
  [][ /\ \A p \in Procs : WritesOfAttempt(p)'
      /\ (users' # users =>
            \E p \in Procs :
              /\ proc[p].pc = "save"
              /\ SignerSucceeded(p)
              /\ proc'[p].writes = 1
              /\ users' = Append(users, BuildUser(p))) ]_vars

\* a provisioning attempt succeeded
ProvisioningSucceeded ==
  \E p \in Procs :
    /\ proc[p].cmd = "start"
    /\ proc[p].progress = "created"
    /\ proc[p].pc = "done"
    /\ proc[p].writes = 1

\* the account carries an address and a share for both chains
TwoBindings(doc) ==
  /\ doc.evmAddress # Missing /\ doc.evmUserShare # Missing
  /\ doc.solanaAddress # Missing /\ doc.solanaUserShare # Missing

\* C7 (as claimed): a /start of an identity without an account, for which the
\* signer succeeds on both chains, stores an account with the two bindings,
\* shows it and reports success.
ProvisionCreatesAccount ==
  \A p \in Procs :
    ( /\ proc[p].cmd = "start"
      /\ proc[p].before = <<>>
      /\ proc[p].pc = "done"
      /\ SignerSucceeded(p)
      /\ proc[p].saveResult # "DuplicateKey" ) =>
        /\ proc[p].progress = "created"
        /\ ~FailureReported(p)
        /\ Matching(users, proc[p].telegramId) # <<>>
        /\ TwoBindings(findOne(users, proc[p].telegramId))
        /\ proc[p].shown = findOne(users, proc[p].telegramId)

(***************************************************************************)
(* Guided transfers: properties                                            *)
(***************************************************************************)
\* the transitions of a TransferSession
Transitions ==
  { <<"Start", "AwaitingAddress">>,
    <<"AwaitingAddress", "AwaitingAmount">>, <<"AwaitingAddress", "Aborted">>,
    <<"AwaitingAmount", "Executing">>, <<"AwaitingAmount", "Aborted">>,
    <<"Executing", "Completed">>, <<"Executing", "Aborted">> }

\* the state a session was in before the i-th state of its path
Before(s, i) == IF i = 1 THEN "Start" ELSE sess[s].path[i - 1]

\* every state the session went through was entered along a transition, and
\* a session in or past Executing went through AwaitingAddress and then
\* AwaitingAmount
PathAllowed(s) ==
  /\ \A i \in 1..Len(sess[s].path) : <<Before(s, i), sess[s].path[i]>> \in Transitions
  /\ (sess[s].path # <<>> => State(s) = sess[s].path[Len(sess[s].path)])
  /\ (sess[s].path = <<>> => State(s) = "Start")
  /\ (State(s) \in {"Executing", "Completed"} =>
        SubSeq(sess[s].path, 1, 3)
          = <<"AwaitingAddress", "AwaitingAmount", "Executing">>)

\* C8: a session changes state only along the transitions of the transfer
\* state machine; Completed and Aborted are left by no step; Executing is
\* reached only through AwaitingAddress and then AwaitingAmount.
SessionTransitions ==
  [][ \A s \in Sessions :
        /\ (State(s)' # State(s) => <<State(s), State(s)'>> \in Transitions)
        /\ (State(s) \in {"Completed", "Aborted"} => sess'[s] = sess[s])
        /\ PathAllowed(s)' ]_vars

\* one session completed and another was aborted by a failing executor
CompletedAndAborted ==
  \E s, r \in Sessions :
    /\ sess[s].path = <<"AwaitingAddress", "AwaitingAmount", "Executing", "Completed">>
    /\ sess[r].path = <<"AwaitingAddress", "AwaitingAmount", "Executing", "Aborted">>

\* the amount text reads as no number, or as a number that is not positive
RejectedAmount(text) ==
  \/ parseFloat(text).nan
  \/ parseFloat(text).neg
  \/ parseFloat(text).mant = 0

\* C9: a session that received an amount text that reads as no number or as
\* a number <= 0 is Aborted straight from AwaitingAmount, with the
\* invalid-amount message, and neither the executor nor the signer was called.
InvalidAmountAborts ==
  \A s \in Sessions :
    (sess[s].amount # <<>> /\ RejectedAmount(sess[s].amount)) =>
      /\ sess[s].path = <<"AwaitingAddress", "AwaitingAmount", "Aborted">>
      /\ sess[s].pc = "Aborted"
      /\ sess[s].progress = "invalidAmount"
      /\ sess[s].executorCalls = 0
      /\ sess[s].signed = <<>>
      /\ sess[s].tx = ""

\* sessions of both chains were aborted by the amounts -3, 0 and abc
NegativeZeroAndTextAborted ==
  /\ \E s \in Sessions :
       sess[s].amount = <<"-", "3">> /\ sess[s].pc = "Aborted"
                                    /\ sess[s].chain = "EVM"
  /\ \E s \in Sessions :
       sess[s].amount \in {<<"0">>, <<"a", "b", "c">>} /\ sess[s].pc = "Aborted"
                                    /\ sess[s].chain = "SOLANA"

(***************************************************************************)
(* Address validation: properties                                          *)
(***************************************************************************)
\* C10: the validator accepts a text exactly when it is 0x followed by 40
\* hexadecimal digits of either case and nothing else.
EvmAddressAcceptedIffWellFormed ==
  verdict # "none" =>
    (verdict = "accept" <=>
      /\ Len(address) = 42
      /\ SubSeq(address, 1, 2) = <<"0", "x">>
      /\ \A i \in 3..42 : address[i] \in HexChars)

\* a mixed-case address was accepted
MixedCaseAccepted ==
  /\ verdict = "accept"
  /\ \E i, j \in 3..Len(address) :
       address[i] \in {"a", "b", "c", "d", "e", "f"}
         /\ address[j] \in {"A", "B", "C", "D", "E", "F"}

(***************************************************************************)
(* Guided transfers: the address checks                                    *)
(***************************************************************************)
\* the destination texts that are 0x followed by 40 hex digits of any case
EvmWellFormed == {"evmLower", "evmUpper", "evmChecksum"}

\* C11 (as claimed): an EVM session that received a destination went on to
\* AwaitingAmount when the text is 0x followed by 40 hex digits, whatever the
\* case of the letters, and was Aborted from AwaitingAddress for every other
\* text; with such an address and the amount 0.05, a session whose executor
\* call succeeded is Completed and emitted a transaction identifier.
EvmAddressStepFollowsPattern ==
  \A s \in Sessions :
    (sess[s].chain = "EVM" /\ sess[s].destAddress # "") =>
      IF sess[s].destAddress \in EvmWellFormed
      THEN /\ SubSeq(sess[s].path, 1, 2) = <<"AwaitingAddress", "AwaitingAmount">>
           /\ ( ( /\ sess[s].amount = <<"0", ".", "0", "5">>
                  /\ sess[s].signed # <<>>
                  /\ sess[s].progress = "sent" ) =>
                  sess[s].pc = "Completed" /\ sess[s].tx # "" )
      ELSE sess[s].path = <<"AwaitingAddress", "Aborted">>

\* C12 (as claimed): a Solana session that received a destination that is no
\* on-curve public key, well-formed or not, is Aborted from AwaitingAddress
\* with the invalid-address message, emitted no amount prompt, and no
\* exception left the conversation.
SolanaRejectsOffCurveAndMalformed ==
  \A s \in Sessions :
    (sess[s].chain = "SOLANA" /\ sess[s].destAddress \notin {"", "solOnCurve"}) =>
      /\ sess[s].path = <<"AwaitingAddress", "Aborted">>
      /\ sess[s].replies = <<"askAddress", "invalidAddress">>
      /\ ~sess[s].escaped

(***************************************************************************)
(* Guided transfers: the executor                                          *)
(***************************************************************************)
\* the key share the store holds for the chain of a session
StoredShare(docs, session) ==
  IF session.chain = "EVM"
  THEN findOne(docs, session.telegramId).evmUserShare
  ELSE findOne(docs, session.telegramId).solanaUserShare

\* C13 (as claimed): the step that leaves Executing signs with the share of
\* the account the store holds at that moment; when the store holds no
\* account for the identity, the step calls no signer and ends the session
\* Aborted with the account-missing message.
ExecutingLooksAccountUpAgain ==
  [][ \A s \in Sessions :
        (State(s) = "Executing" /\ State(s)' # "Executing") =>
          IF findOne(users, sess[s].telegramId) = NoUser
          THEN /\ sess'[s].signed = <<>>
               /\ State(s)' = "Aborted"
               /\ sess'[s].progress = "accountMissing"
          ELSE \A i \in 1..Len(sess'[s].signed) :
                 sess'[s].signed[i].share = StoredShare(users, sess[s]) ]_vars

\* the session went through Executing
Executed(s) ==
  \E i \in 1..Len(sess[s].path) : sess[s].path[i] = "Executing"

\* C14: a session calls the executor at most once and hands the signer at
\* most one transaction; a session that left Executing, Completed or Aborted,
\* has called it exactly once; a session that has not reached Executing, or
\* ended before it, has not called it.
OneAttemptPerSession ==
  \A s \in Sessions :
    /\ sess[s].executorCalls <= 1
    /\ Len(sess[s].signed) <= sess[s].executorCalls
    /\ (State(s) \in {"Completed", "Aborted"} /\ Executed(s) =>
          sess[s].executorCalls = 1)
    /\ (State(s) = "Completed" => Executed(s))
    /\ (State(s) = "Executing" \/ ~Executed(s) => sess[s].executorCalls = 0)

\* one session was aborted by a send that the signer failed, after one
\* attempt; another ended before Executing
FailedSendNotRetried ==
  \E s, r \in Sessions :
    /\ sess[s].path = <<"AwaitingAddress", "AwaitingAmount", "Executing", "Aborted">>
    /\ Len(sess[s].signed) = 1
    /\ sess[s].executorCalls = 1
    /\ sess[r].path = <<"AwaitingAddress", "AwaitingAmount", "Aborted">>
    /\ sess[r].executorCalls = 0

(***************************************************************************)
(* /wallet: properties                                                     *)
(***************************************************************************)
\* the reply that carries the balance of a chain
BalanceReply(chain) == IF chain = "EVM" THEN "ethBalance" ELSE "solBalance"

Replied(p, msg) == \E i \in 1..Len(proc[p].replies) : proc[p].replies[i] = msg

\* C15 (as claimed): a handler that went through the balance queries issued
\* one query per chain of the account, reported the balance of every chain
\* whose endpoint answers, and a failure for every chain whose endpoint does
\* not.
BalanceFailuresIsolated ==
  \A p \in Procs :
    (proc[p].pc = "done" /\ proc[p].queried # {}) =>
      /\ proc[p].queried = Chains
      /\ \A chain \in Chains :
           IF chain \in proc[p].answering
           THEN Replied(p, BalanceReply(chain))
           ELSE Replied(p, "balanceError")

(***************************************************************************)
(* Command handlers: properties                                            *)
(***************************************************************************)
\* C16 (as claimed): no exception leaves a command handler or a conversation,
\* whichever collaborator fails, and the bot goes on serving updates.
HandlersCatchEverything ==
  /\ \A p \in Procs : proc[p].pc # "escaped"
  /\ \A s \in Sessions : ~sess[s].escaped
  /\ ~Stopped

\* C17: a handler that got an update without a sender has replied with the
\* error message and is at its end: it looked nothing up, called no signer,
\* queried no chain, wrote nothing and showed no account; a send command
\* without a sender started no session.
NoIdentityStops ==
  /\ \A p \in Procs :
       (proc[p].cmd # "" /\ proc[p].telegramId = "") =>
         /\ proc[p].pc = "done"
         /\ proc[p].replies[Len(proc[p].replies)] = "error"
         /\ proc[p].lookups = 0
         /\ proc[p].signerCalls = {}
         /\ proc[p].queried = {}
         /\ proc[p].writes = 0
         /\ proc[p].shown = NoUser
  /\ \A s \in Sessions :
       (sess[s].pc # "idle" /\ sess[s].telegramId = "") =>
         /\ sess[s].pc = "refused"
         /\ sess[s].replies = <<"error">>
         /\ sess[s].lookups = 0
         /\ sess[s].path = <<>>
         /\ sess[s].executorCalls = 0
         /\ ~sess[s].escaped

\* a start, a wallet and a send command arrived without a sender
EachCommandWithoutSender ==
  /\ \E p, q \in Procs :
       /\ proc[p].cmd = "start" /\ proc[p].telegramId = "" /\ proc[p].pc = "done"
       /\ proc[q].cmd = "wallet" /\ proc[q].telegramId = "" /\ proc[q].pc = "done"
  /\ \E s \in Sessions :
       sess[s].pc = "refused" /\ sess[s].telegramId = ""

(***************************************************************************)
(* Guided transfers: entry and outputs                                     *)
(***************************************************************************)
\* C18: the step that starts a transfer puts the session in AwaitingAddress,
\* with the destination prompt, only when the store holds an account for the
\* identity; for an identity without an account it ends the transfer with
\* the register-first message and no prompt, and such a transfer takes no
\* further step: it consumes no message and never calls the executor.
EntersOnlyIfRegistered ==
  [][ \A s \in Sessions :
        /\ ( sess[s].pc = "idle" /\ sess'[s].pc # "idle" ) =>
              IF State(s)' = "AwaitingAddress"
              THEN /\ findOne(users, sess'[s].telegramId) # NoUser
                   /\ sess'[s].user = findOne(users, sess'[s].telegramId)
                   /\ sess'[s].replies = <<"askAddress">>
              ELSE ( sess'[s].telegramId # "" /\ ~sess'[s].escaped ) =>
                   /\ findOne(users, sess'[s].telegramId) = NoUser
                   /\ sess'[s].replies = <<"registerFirst">>
                   /\ sess'[s].destAddress = "" /\ sess'[s].amount = <<>>
                   /\ sess'[s].executorCalls = 0
        /\ ( sess[s].pc = "refused" => sess'[s] = sess[s] ) ]_vars

\* one identity was told to register first, another got the prompt
RefusedAndPrompted ==
  \E s, r \in Sessions :
    /\ sess[s].pc = "refused" /\ sess[s].replies = <<"registerFirst">>
    /\ sess[r].pc = "AwaitingAddress" /\ sess[r].replies = <<"askAddress">>
\* the session told the user why it failed
FailureExplained(s) ==
  \/ sess[s].replies[Len(sess[s].replies)] = "invalidAddress"
  \/ sess[s].progress \in {"invalidAmount", "sendFailed"}

\* C19 (as claimed): a session waiting for the address has emitted the address
\* prompt and nothing else; a session waiting for the amount has emitted the
\* amount prompt after it, which only a session with an accepted address
\* emits; the confirmation with the transaction identifier is emitted exactly
\* by the sessions that are Completed; every Aborted session has emitted a
\* failure explanation and no transaction identifier.
OutputsFollowState ==
  \A s \in Sessions :
    /\ (State(s) = "AwaitingAddress" => sess[s].replies = <<"askAddress">>)
    /\ (State(s) = "AwaitingAmount" =>
          sess[s].replies = <<"askAddress", "askAmount">>)
    /\ ((\E i \in 1..Len(sess[s].replies) : sess[s].replies[i] = "askAmount") =>
          SubSeq(sess[s].path, 1, 2) = <<"AwaitingAddress", "AwaitingAmount">>)
    /\ (State(s) = "Completed" <=> (sess[s].progress = "sent" /\ sess[s].tx # ""))
    /\ (State(s) = "Aborted" => FailureExplained(s) /\ sess[s].tx = "")

(***************************************************************************)
(* The key shares: properties                                              *)
(***************************************************************************)
\* a value is a key share of the signer
IsShare(v) == Len(v) > 0 /\ v[1] = "share"

\* C20: no value carried by a message or a log line of a handler or of a
\* session is a key share, so that what is said does not depend on the shares
\* the store holds; the share of a session's account goes to the signer, in
\* the calls of the executor, and it is the share of the chain of the
\* transfer.
SharesStayWithSigner ==
  /\ \A p \in Procs :
       \A i \in 1..Len(proc[p].said) : ~IsShare(proc[p].said[i])
  /\ \A s \in Sessions :
       /\ \A i \in 1..Len(sess[s].said) : ~IsShare(sess[s].said[i])
       /\ \A i \in 1..Len(sess[s].signed) :
            /\ IsShare(sess[s].signed[i].share)
            /\ sess[s].signed[i].share[2] = sess[s].chain
            /\ sess[s].executorCalls >= i

\* sessions of both chains signed with a share, one of them sent and one of
\* them failed, and logged what they did
SignedAndLogged ==
  \E s, r \in Sessions :
    /\ sess[s].chain = "EVM" /\ sess[r].chain = "SOLANA"
    /\ sess[s].signed # <<>> /\ sess[r].signed # <<>>
    /\ sess[s].pc = "Completed" /\ sess[r].pc = "Aborted"
    /\ Len(sess[s].said) > 2 /\ Len(sess[r].said) > 2

(***************************************************************************)
(* Guided transfers: one conversation per identity                         *)
(***************************************************************************)
\* C21: no two conversations of one identity are active at once.
OneActiveSessionPerIdentity ==
  \A s, r \in Sessions :
    s # r /\ Active(s) /\ Active(r) => sess[s].telegramId # sess[r].telegramId

(***************************************************************************)
(* Guided transfers: the value handed to the signer                        *)
(***************************************************************************)
\* the decimal places of the smallest unit of a chain
Decimals(chain) == IF chain = "EVM" THEN WeiDecimals ELSE LamportDecimals

\* x * 10^decimals for the decimal literal x, in exact arithmetic
Exact(x, decimals) ==
  IF x.scale <= decimals
  THEN [whole |-> TRUE, neg |-> x.neg,
        digits |-> Times10(Big(x.mant), decimals - x.scale)]
  ELSE LET q == Over10(Big(x.mant), x.scale - decimals)
       IN  [whole |-> ~q.rest, neg |-> x.neg,
            digits |-> IF q.rest THEN <<>> ELSE q.quot]

\* the signer received a whole number above zero
PositiveWhole(v) == v.whole /\ ~v.neg /\ v.digits # <<>>

\* C22 (as claimed): every value handed to the signer is the validated amount
\* times 10^18 on EVM and times 10^9 on Solana, a whole number above zero.
SignerReceivesExactAmount ==
  \A s \in Sessions :
    \A i \in 1..Len(sess[s].signed) :
      /\ PositiveWhole(sess[s].signed[i].value)
      /\ sess[s].signed[i].value
           = Exact(parseFloat(sess[s].amount), Decimals(sess[s].chain))

(***************************************************************************)
(* The account store is only ever appended to                              *)
(***************************************************************************)
\* C23: a step leaves every stored account in place and as it was; a step of
\* the balance display or of a guided transfer leaves the whole store as it
\* was.
AccountsNeverChange ==
  [][ /\ \A i \in 1..Len(users) : i <= Len(users') /\ users'[i] = users[i]
      /\ ( \/ sess' # sess
           \/ \E p \in Procs : proc'[p] # proc[p] /\ proc[p].cmd = "wallet" ) =>
           users' = users ]_vars

\* two accounts were created one after the other, and the first identity
\* completed a transfer
TransferAfterSecondAccount ==
  /\ Len(users) = 2
  /\ sess[1].pc = "Completed"
  /\ sess[1].telegramId = users[1].telegramId

(***************************************************************************)
(* Guided transfers: every conversation ends                               *)
(***************************************************************************)
\* C24 (as claimed): when the user supplies the messages and the executor
\* returns or fails, a conversation that was entered reaches Completed or
\* Aborted.
EverySessionEnds ==
  \A s \in Sessions : Active(s) ~> sess[s].pc \in {"Completed", "Aborted"}

(***************************************************************************)
(* Guided transfers: the messages a conversation consumes                  *)
(***************************************************************************)
\* the destination is the first message a conversation consumed, after the
\* prompt for it, and the amount the second, after the prompt for the amount
HeardInOrder(session) ==
  /\ Len(session.heard) = IF session.destAddress = "" THEN 0
                          ELSE IF session.amount = <<>> THEN 1 ELSE 2
  /\ Len(session.heard) >= 1 =>
       /\ session.heard[1].after = "askAddress"
       /\ session.heard[1].text = session.destAddress
  /\ Len(session.heard) >= 2 =>
       /\ session.heard[2].after = "askAmount"
       /\ session.heard[2].text = session.amount

CompletedByWiredCommand ==
  \A s \in Sessions :
    sess[s].pc = "Completed" =>
      /\ sess[s].cmd \in Registered \cap DOMAIN Wiring
      /\ Wiring[sess[s].cmd] = Exported[sess[s].chain]

(***************************************************************************)
(* Stored accounts carry both bindings                                     *)
(***************************************************************************)
\* the binding of a chain a document carries is the one the signer returned
\* for the identifier of the identity of the document
BoundTo(doc, chain, addressPath, sharePath) ==
  /\ doc[addressPath] = <<"addr", chain, Identifier(doc.telegramId)>>
  /\ doc[sharePath] = <<"share", chain, Identifier(doc.telegramId)>>

\* C27: every stored account carries the address and the share of both
\* chains, each the one the signer returned for the identifier built from the
\* identity of the account and the namespace.
StoredAccountsCarryBothBindings ==
  \A i \in 1..Len(users) :
    /\ users[i].telegramId # ""
    /\ BoundTo(users[i], "EVM", "evmAddress", "evmUserShare")
    /\ BoundTo(users[i], "SOLANA", "solanaAddress", "solanaUserShare")

\* an account is stored, and an attempt for which the signer returned no
\* share for one chain was refused by the store
StoredAndRefusedWithoutShare ==
  /\ users # <<>>
  /\ \E p \in Procs :
       /\ proc[p].saveResult = "ValidationError"
       /\ schemaFile = "part_000"
       /\ Missing \in {proc[p].ethAccount.share, proc[p].solanaAccount.share}

(***************************************************************************)
(* Guided transfers: what a conversation signs with                        *)
(***************************************************************************)
\* C28: every call of the signer uses the share of the chain of the
\* conversation for the identity of the conversation, with the destination
\* and the amount that conversation received; a step changes one
\* conversation.
SignerCallsUseOwnBinding ==
  [][ /\ \A s \in Sessions :
           \A i \in 1..Len(sess'[s].signed) :
             /\ sess'[s].signed[i].share
                  = <<"share", sess'[s].chain, Identifier(sess'[s].telegramId)>>
             /\ sess'[s].signed[i].to = sess'[s].heard[1].text
             /\ sess'[s].signed[i].value =
                  IF sess'[s].chain = "EVM"
                  THEN Converted[sess'[s].heard[2].text].EVM
                  ELSE Converted[sess'[s].heard[2].text].SOLANA
      /\ \A s, r \in Sessions :
           s # r => sess'[s] = sess[s] \/ sess'[r] = sess[r] ]_vars

\* two identities signed, one on each chain, with different destinations and
\* amounts
TwoIdentitiesSigned ==
  \E s, r \in Sessions :
    /\ sess[s].signed # <<>> /\ sess[r].signed # <<>>
    /\ sess[s].telegramId # sess[r].telegramId
    /\ sess[s].chain # sess[r].chain
    /\ sess[s].amount # sess[r].amount

(***************************************************************************)
(* Guided transfers: the amount text read twice                            *)
(***************************************************************************)
\* the number the executor of a chain reads from the amount text
ExecutorReads(chain, text) ==
  IF chain = "EVM" THEN Number(text) ELSE parseFloat(text)

\* C29 (as claimed): for every amount the check accepted, the executor reads
\* the number the check read, and the conversion of that number does not
\* throw before the signer is reached.
AcceptedAmountReadAlike ==
  \A s \in Sessions :
    sess[s].executorCalls > 0 =>
      /\ ExecutorReads(sess[s].chain, sess[s].amount) = parseFloat(sess[s].amount)
      /\ Whole(Dispatched(sess[s]).value)

(***************************************************************************)
(* Guided transfers: the progress message                                  *)
(***************************************************************************)
\* C30: the progress message appears with the text 'Sending' when the amount
\* is received, also for an amount the check then refuses, and not before;
\* in a conversation that ended after its amount it was edited once and shows
\* the confirmation (Completed) or a failure explanation (Aborted).
ProgressAlwaysReplaced ==
  \A s \in Sessions :
    /\ Len(sess[s].heard) < 2 => sess[s].shown = <<>>
    /\ Len(sess[s].heard) = 2 =>
         /\ sess[s].shown # <<>> /\ sess[s].shown[1] = "sending"
         /\ sess[s].progress = sess[s].shown[Len(sess[s].shown)]
         /\ sess[s].pc = "Executing" => sess[s].shown = <<"sending">>
         /\ sess[s].pc = "Completed" => sess[s].shown = <<"sending", "sent">>
         /\ sess[s].pc = "Aborted" =>
              \/ sess[s].shown = <<"sending", "invalidAmount">>
                   /\ sess[s].executorCalls = 0
              \/ sess[s].shown = <<"sending", "sendFailed">>
                   /\ sess[s].executorCalls = 1

\* one conversation ended on a refused amount, another on a failed send
RefusedAmountAndFailedSend ==
  \E s, r \in Sessions :
    /\ sess[s].pc = "Aborted" /\ sess[s].shown = <<"sending", "invalidAmount">>
    /\ sess[r].pc = "Aborted" /\ sess[r].shown = <<"sending", "sendFailed">>

====
